---------------------------- MODULE Spec2Model ----------------------------
(***************************************************************************)
(* hashbrowns::HashMap (src/src/structures/hash_map.h): an integer-keyed   *)
(* hash table with two strategies, open addressing with linear probing and *)
(* tombstones, and separate chaining whose nodes come from                 *)
(* hashbrowns::MemoryPool (src/src/core/memory_manager.h).                 *)
(*                                                                         *)
(* The object's fields are the variables.  Every private member function   *)
(* is an operator from an object record (the fields) to a result record    *)
(* [h |-> the object afterwards, ret |-> the outcome]; every public        *)
(* operation is one action.                                                *)
(***************************************************************************)
EXTENDS Integers, Sequences, FiniteSets, TLC

(***************************************************************************)
(* Bounds of the model.                                                    *)
(***************************************************************************)
\* number of distinct keys the callers use (taken from KeySeq in order)
NumKeys == 2
\* values are the opaque strings "v1" .. "vMaxValue", written 1 .. MaxValue
MaxValue == 2
\* a constructor call requests an initial_capacity of 1 .. MaxInitCap
MaxInitCap == 3
\* no insert is made that would grow the table beyond this capacity
MaxCapacity == 8
\* cells per pool chunk (the template default is 1024, memory_manager.h:289)
ChunkSize == 2
\* the largest initial_capacity requested where the constructor is examined
MaxRequest == 17
\* where the strategy may be switched, no insert is made that would grow
\* the table beyond this capacity
MaxSwitchedCapacity == 32
\* threads that share one pool
NumThreads == 2
\* where the pool is used directly, no allocate is made that would need
\* more than this number of chunks
MaxChunks == 2

\* keys of the callers: 4, 5 and 10 share slot 0 at capacity 1 and 2 and slot 2
\* at capacity 4 and 8 (4 and 10 also at 16 and 32), so their probe paths and
\* chains overlap
KeySeq == <<4, 5, 10, 1, 3>>
Keys == {KeySeq[i] : i \in 1..NumKeys}
Values == 1..MaxValue
\* "no string": the value of a key that is absent, of a destroyed std::string
NoValue == 0

(***************************************************************************)
(* 64-bit unsigned arithmetic on little-endian byte vectors (index 0..7),  *)
(* as needed by mix().                                                     *)
(***************************************************************************)
RECURSIVE Pow(_, _)
Pow(b, e) == IF e = 0 THEN 1 ELSE b * Pow(b, e - 1)

RECURSIVE BitXor(_, _)
BitXor(a, b) ==
    IF a = 0 THEN b
    ELSE IF b = 0 THEN a
    ELSE (((a % 2) + (b % 2)) % 2) + 2 * BitXor(a \div 2, b \div 2)

RECURSIVE BitAnd(_, _)
BitAnd(a, b) ==
    IF a = 0 \/ b = 0 THEN 0
    ELSE ((a % 2) * (b % 2)) + 2 * BitAnd(a \div 2, b \div 2)

\* static_cast<std::uint64_t>(key) of an int key: sign extension to 64 bits
U64FromInt(k) ==
    LET nat(n, i) == IF i < 4 THEN (n \div Pow(256, i)) % 256 ELSE 0
    IN  [i \in 0..7 |-> IF k >= 0 THEN nat(k, i) ELSE 255 - nat(-k - 1, i)]

RECURSIVE AddCarry(_, _, _)
AddCarry(a, b, i) ==
    IF i = 0 THEN 0 ELSE (a[i-1] + b[i-1] + AddCarry(a, b, i - 1)) \div 256

\* x + y (mod 2^64)
AddU64(a, b) == [i \in 0..7 |-> (a[i] + b[i] + AddCarry(a, b, i)) % 256]

RECURSIVE ColSum(_, _, _, _)
ColSum(a, b, k, i) ==
    IF i > k THEN 0 ELSE (a[i] * b[k - i]) + ColSum(a, b, k, i + 1)

RECURSIVE MulAcc(_, _, _)
MulAcc(a, b, k) ==
    ColSum(a, b, k, 0) + (IF k = 0 THEN 0 ELSE MulAcc(a, b, k - 1) \div 256)

\* x * y (mod 2^64)
MulU64(a, b) == [k \in 0..7 |-> MulAcc(a, b, k) % 256]

\* x >> s
ShrU64(a, s) ==
    LET q == s \div 8
        r == s % 8
        byte(j) == IF j <= 7 THEN a[j] ELSE 0
    IN  [i \in 0..7 |->
            (byte(i + q) \div Pow(2, r)) + ((byte(i + q + 1) % Pow(2, r)) * Pow(2, 8 - r))]

\* x ^ y
XorU64(a, b) == [i \in 0..7 |-> BitXor(a[i], b[i])]

\* 0x9e3779b97f4a7c15, 0xbf58476d1ce4e5b9, 0x94d049bb133111eb
MixGamma == [i \in 0..7 |-> <<21, 124, 74, 127, 185, 121, 55, 158>>[i + 1]]
MixMul1 == [i \in 0..7 |-> <<185, 229, 228, 28, 109, 71, 88, 191>>[i + 1]]
MixMul2 == [i \in 0..7 |-> <<235, 17, 49, 19, 187, 73, 208, 148>>[i + 1]]

\* splitmix64 finaliser
mix(x) ==
    LET x1 == AddU64(x, MixGamma)
        x2 == MulU64(XorU64(x1, ShrU64(x1, 30)), MixMul1)
        x3 == MulU64(XorU64(x2, ShrU64(x2, 27)), MixMul2)
    IN  XorU64(x3, ShrU64(x3, 31))

\* the low 16 bits of mix(static_cast<std::uint64_t>(key)), once per key;
\* every mask (capacity_ - 1) of the model is below 2^16
MixLow == [k \in Keys |-> LET m == mix(U64FromInt(k)) IN m[0] + (256 * m[1])]

\* mix(static_cast<std::uint64_t>(key)) & mask
Home(key, mask) == BitAnd(MixLow[key], mask)

(***************************************************************************)
(* The HashMap object.  An object record h has the fields                  *)
(*   strategy_, size_, capacity_,                                          *)
(*   oa_entries_, load_threshold_, tombstones_,                            *)
(*   buckets_, sc_pool_, sc_node_count_.                                   *)
(* Arrays are functions on 0 .. n-1; nullptr is the empty function for an  *)
(* array and 0 for a node.  mem says which backing allocations of the call *)
(* succeed: mem.arr for TrackedAllocator::allocate, mem.chunk for the      *)
(* malloc of make_unique_array, mem.push for the reallocation made by      *)
(* chunks_.push_back.  A result record is [h, ret, val, grows,             *)
(* mid]: ret is "ok", "bad_alloc" (std::bad_alloc propagates to the        *)
(* caller) or "hang" (a loop that never ends); val is the returned value;  *)
(* grows counts the growths the call performed and mid is the object right *)
(* after the call's growth step.                                           *)
(***************************************************************************)
OPEN_ADDRESSING == "OPEN_ADDRESSING"
SEPARATE_CHAINING == "SEPARATE_CHAINING"
HashStrategy == {OPEN_ADDRESSING, SEPARATE_CHAINING}

nullptr == 0
NullArray == << >>

MemOK == [arr |-> TRUE, chunk |-> TRUE, push |-> TRUE]

Result(h, ret, val, grows, mid) ==
    [h |-> h, ret |-> ret, val |-> val, grows |-> grows, mid |-> mid]

\* the loop of capacity_round_up with cap <= n as its test
RECURSIVE RoundUpFrom_le(_, _)
RoundUpFrom_le(cap, n) == IF cap <= n THEN RoundUpFrom_le(cap * 2, n) ELSE cap

\* while (cap < n) cap <<= 1
RECURSIVE RoundUpFrom(_, _)
RoundUpFrom(cap, n) == IF cap < n THEN RoundUpFrom(cap * 2, n) ELSE cap

capacity_round_up(n) == RoundUpFrom(1, n)

(***************************************************************************)
(* Open addressing.  An OAEntry is [key, value, state, alive]; alive says  *)
(* whether a std::string object currently lives in the slot's value.       *)
(***************************************************************************)
EMPTY == "EMPTY"
OCCUPIED == "OCCUPIED"
TOMBSTONE == "TOMBSTONE"

\* OAEntry() : key(0), value(), state(OAState::EMPTY)
OAEntry == [key |-> 0, value |-> NoValue, state |-> EMPTY, alive |-> TRUE]

\* a load threshold of the whole capacity
LoadThresholdOf_whole(cap) == cap

\* static_cast<std::size_t>(capacity_ * 0.7): for a power of two 0.7 * cap
\* is never integral, so the truncated double product is floor(7 * cap / 10)
LoadThresholdOf(cap) == (cap * 7) \div 10

\* capacity_ and load_threshold_ are assigned before the array is allocated
oa_init(h, cap, mem) ==
    LET h1 == [h EXCEPT !.capacity_ = cap, !.load_threshold_ = LoadThresholdOf(cap)]
    IN  IF ~mem.arr
        THEN Result(h1, "bad_alloc", FALSE, 0, h1)
        ELSE LET h2 == [h1 EXCEPT !.oa_entries_ = [i \in 0..(cap - 1) |-> OAEntry]]
             IN  Result(h2, "ok", FALSE, 0, h2)

\* oa_clear that resets the TOMBSTONE slots only
oa_clear_tombstones(h) ==
    IF h.oa_entries_ = NullArray THEN h
    ELSE [h EXCEPT !.oa_entries_ =
            [i \in DOMAIN h.oa_entries_ |->
                LET e == h.oa_entries_[i]
                IN  IF e.state = TOMBSTONE THEN [e EXCEPT !.state = EMPTY]
                    ELSE e]]

oa_clear(h) ==
    IF h.oa_entries_ = NullArray THEN h
    ELSE [h EXCEPT !.oa_entries_ =
            [i \in DOMAIN h.oa_entries_ |->
                LET e == h.oa_entries_[i]
                IN  IF e.state = OCCUPIED THEN OAEntry
                    ELSE IF e.state = TOMBSTONE THEN [e EXCEPT !.state = EMPTY]
                    ELSE e]]

oa_free(h) ==
    IF h.oa_entries_ = NullArray THEN h
    ELSE [h EXCEPT !.oa_entries_ = NullArray]

\* oa_insert_probe with ++size_ also on the update path
RECURSIVE oa_insert_probe_dupsize(_, _, _, _, _, _)
oa_insert_probe_dupsize(h, key, value, idx, first_tomb, steps) ==
    LET mask == h.capacity_ - 1
        e == h.oa_entries_[idx]
    IN  IF steps >= 2 * h.capacity_ THEN Result(h, "hang", FALSE, 0, h)
        ELSE IF e.state = EMPTY
        THEN LET target == IF first_tomb < h.capacity_ THEN first_tomb ELSE idx
                 slot == h.oa_entries_[target]
                 tomb == IF slot.state = TOMBSTONE
                         THEN h.tombstones_ - 1 ELSE h.tombstones_
                 h1 == [h EXCEPT
                          !.tombstones_ = tomb,
                          !.oa_entries_[target] =
                              [key |-> key, value |-> value,
                               state |-> OCCUPIED, alive |-> TRUE],
                          !.size_ = h.size_ + 1]
             IN  Result(h1, "ok", FALSE, 0, h1)
        ELSE IF e.state = TOMBSTONE
        THEN oa_insert_probe_dupsize(h, key, value, BitAnd(idx + 1, mask),
                                     IF first_tomb = h.capacity_ THEN idx ELSE first_tomb,
                                     steps + 1)
        ELSE IF e.key = key
        THEN LET h1 == [h EXCEPT !.oa_entries_[idx].value = value,
                                 !.size_ = h.size_ + 1]
             IN  Result(h1, "ok", FALSE, 0, h1)
        ELSE oa_insert_probe_dupsize(h, key, value, BitAnd(idx + 1, mask),
                                     first_tomb, steps + 1)

\* oa_insert_probe that writes into the first tombstone as soon as it meets it
RECURSIVE oa_insert_probe_eager(_, _, _, _, _, _)
oa_insert_probe_eager(h, key, value, idx, first_tomb, steps) ==
    LET mask == h.capacity_ - 1
        e == h.oa_entries_[idx]
    IN  IF steps >= 2 * h.capacity_ THEN Result(h, "hang", FALSE, 0, h)
        ELSE IF e.state = EMPTY \/ e.state = TOMBSTONE
        THEN LET tomb == IF e.state = TOMBSTONE
                         THEN h.tombstones_ - 1 ELSE h.tombstones_
                 h1 == [h EXCEPT
                          !.tombstones_ = tomb,
                          !.oa_entries_[idx] =
                              [key |-> key, value |-> value,
                               state |-> OCCUPIED, alive |-> TRUE],
                          !.size_ = h.size_ + 1]
             IN  Result(h1, "ok", FALSE, 0, h1)
        ELSE IF e.key = key
        THEN LET h1 == [h EXCEPT !.oa_entries_[idx].value = value]
             IN  Result(h1, "ok", FALSE, 0, h1)
        ELSE oa_insert_probe_eager(h, key, value, BitAnd(idx + 1, mask),
                                   first_tomb, steps + 1)

\* oa_insert_probe that remembers the last tombstone it meets, not the first
RECURSIVE oa_insert_probe_lasttomb(_, _, _, _, _, _)
oa_insert_probe_lasttomb(h, key, value, idx, first_tomb, steps) ==
    LET mask == h.capacity_ - 1
        e == h.oa_entries_[idx]
    IN  IF steps >= 2 * h.capacity_ THEN Result(h, "hang", FALSE, 0, h)
        ELSE IF e.state = EMPTY
        THEN LET target == IF first_tomb < h.capacity_ THEN first_tomb ELSE idx
                 slot == h.oa_entries_[target]
                 tomb == IF slot.state = TOMBSTONE
                         THEN h.tombstones_ - 1 ELSE h.tombstones_
                 h1 == [h EXCEPT
                          !.tombstones_ = tomb,
                          !.oa_entries_[target] =
                              [key |-> key, value |-> value,
                               state |-> OCCUPIED, alive |-> TRUE],
                          !.size_ = h.size_ + 1]
             IN  Result(h1, "ok", FALSE, 0, h1)
        ELSE IF e.state = TOMBSTONE
        THEN oa_insert_probe_lasttomb(h, key, value, BitAnd(idx + 1, mask), idx,
                                      steps + 1)
        ELSE IF e.key = key
        THEN LET h1 == [h EXCEPT !.oa_entries_[idx].value = value]
             IN  Result(h1, "ok", FALSE, 0, h1)
        ELSE oa_insert_probe_lasttomb(h, key, value, BitAnd(idx + 1, mask),
                                      first_tomb, steps + 1)

\* oa_insert_probe that leaves tombstones_ as it is when it fills a tombstone
RECURSIVE oa_insert_probe_keepcount(_, _, _, _, _, _)
oa_insert_probe_keepcount(h, key, value, idx, first_tomb, steps) ==
    LET mask == h.capacity_ - 1
        e == h.oa_entries_[idx]
    IN  IF steps >= 2 * h.capacity_ THEN Result(h, "hang", FALSE, 0, h)
        ELSE IF e.state = EMPTY
        THEN LET target == IF first_tomb < h.capacity_ THEN first_tomb ELSE idx
                 h1 == [h EXCEPT
                          !.oa_entries_[target] =
                              [key |-> key, value |-> value,
                               state |-> OCCUPIED, alive |-> TRUE],
                          !.size_ = h.size_ + 1]
             IN  Result(h1, "ok", FALSE, 0, h1)
        ELSE IF e.state = TOMBSTONE
        THEN oa_insert_probe_keepcount(h, key, value, BitAnd(idx + 1, mask),
                                       IF first_tomb = h.capacity_ THEN idx ELSE first_tomb,
                                       steps + 1)
        ELSE IF e.key = key
        THEN LET h1 == [h EXCEPT !.oa_entries_[idx].value = value]
             IN  Result(h1, "ok", FALSE, 0, h1)
        ELSE oa_insert_probe_keepcount(h, key, value, BitAnd(idx + 1, mask),
                                       first_tomb, steps + 1)

\* the probe loop of oa_insert; it visits a slot per iteration and its
\* state (idx, first_tomb) repeats after at most 2 * capacity_ iterations
RECURSIVE oa_insert_probe(_, _, _, _, _, _)
oa_insert_probe(h, key, value, idx, first_tomb, steps) ==
    LET mask == h.capacity_ - 1
        e == h.oa_entries_[idx]
    IN  IF steps >= 2 * h.capacity_ THEN Result(h, "hang", FALSE, 0, h)
        ELSE IF e.state = EMPTY
        THEN LET target == IF first_tomb < h.capacity_ THEN first_tomb ELSE idx
                 slot == h.oa_entries_[target]
                 tomb == IF slot.state = TOMBSTONE
                         THEN h.tombstones_ - 1 ELSE h.tombstones_
                 h1 == [h EXCEPT
                          !.tombstones_ = tomb,
                          !.oa_entries_[target] =
                              [key |-> key, value |-> value,
                               state |-> OCCUPIED, alive |-> TRUE],
                          !.size_ = h.size_ + 1]
             IN  Result(h1, "ok", FALSE, 0, h1)
        ELSE IF e.state = TOMBSTONE
        THEN oa_insert_probe(h, key, value, BitAnd(idx + 1, mask),
                             IF first_tomb = h.capacity_ THEN idx ELSE first_tomb,
                             steps + 1)
        ELSE IF e.key = key
        THEN LET h1 == [h EXCEPT !.oa_entries_[idx].value = value]
             IN  Result(h1, "ok", FALSE, 0, h1)
        ELSE oa_insert_probe(h, key, value, BitAnd(idx + 1, mask), first_tomb,
                             steps + 1)

RECURSIVE oa_insert(_, _, _, _)
RECURSIVE oa_grow_reinsert(_, _, _, _, _, _)

\* the first loop of oa_grow: reinsert the OCCUPIED entries of the old array
oa_grow_reinsert(h, old, i, old_cap, mem, grows) ==
    IF i >= old_cap THEN Result(h, "ok", FALSE, grows, h)
    ELSE IF old[i].state = OCCUPIED
    THEN LET r == oa_insert(h, old[i].key, old[i].value, mem)
         IN  IF r.ret # "ok" THEN Result(r.h, r.ret, FALSE, grows + r.grows, r.h)
             ELSE oa_grow_reinsert(r.h, old, i + 1, old_cap, mem, grows + r.grows)
    ELSE oa_grow_reinsert(h, old, i + 1, old_cap, mem, grows)

\* oa_grow whose reinsertion loop starts at index 1
oa_grow_from1(h, mem) ==
    LET new_cap == IF h.capacity_ # 0 THEN h.capacity_ * 2 ELSE 16
        old == h.oa_entries_
        old_cap == h.capacity_
        i == oa_init(h, new_cap, mem)
        old_size == h.size_
    IN  IF i.ret # "ok" THEN i
        ELSE LET r == oa_grow_reinsert([i.h EXCEPT !.size_ = 0], old, 1, old_cap,
                                       mem, 0)
             IN  IF r.ret # "ok" THEN r
                 ELSE LET h1 == [r.h EXCEPT !.size_ = old_size]
                      IN  Result(h1, "ok", FALSE, 1 + r.grows, h1)

\* oa_grow that makes the new array four times the old one
oa_grow_x4(h, mem) ==
    LET new_cap == IF h.capacity_ # 0 THEN h.capacity_ * 4 ELSE 16
        old == h.oa_entries_
        old_cap == h.capacity_
        i == oa_init(h, new_cap, mem)
        old_size == h.size_
    IN  IF i.ret # "ok" THEN i
        ELSE LET r == oa_grow_reinsert([i.h EXCEPT !.size_ = 0], old, 0, old_cap,
                                       mem, 0)
             IN  IF r.ret # "ok" THEN r
                 ELSE LET h1 == [r.h EXCEPT !.size_ = old_size]
                      IN  Result(h1, "ok", FALSE, 1 + r.grows, h1)

oa_grow(h, mem) ==
    LET new_cap == IF h.capacity_ # 0 THEN h.capacity_ * 2 ELSE 16
        old == h.oa_entries_
        old_cap == h.capacity_
        i == oa_init(h, new_cap, mem)
        old_size == h.size_
    IN  IF i.ret # "ok" THEN i
        ELSE LET r == oa_grow_reinsert([i.h EXCEPT !.size_ = 0], old, 0, old_cap,
                                       mem, 0)
             IN  IF r.ret # "ok" THEN r
                 ELSE LET h1 == [r.h EXCEPT !.size_ = old_size]
                      IN  Result(h1, "ok", FALSE, 1 + r.grows, h1)

\* oa_insert that grows on size_ + tombstones_ > load_threshold_
oa_insert_gt(h, key, value, mem) ==
    LET g == IF h.size_ + h.tombstones_ > h.load_threshold_
             THEN LET r == oa_grow(h, mem)
                  IN  IF r.ret # "ok" THEN r
                      ELSE Result([r.h EXCEPT !.tombstones_ = 0], "ok", FALSE,
                                  r.grows, r.h)
             ELSE Result(h, "ok", FALSE, 0, h)
    IN  IF g.ret # "ok" THEN g
        ELSE LET p == oa_insert_probe(g.h, key, value,
                                      Home(key, g.h.capacity_ - 1),
                                      g.h.capacity_, 0)
             IN  Result(p.h, p.ret, FALSE, g.grows, g.mid)

oa_insert(h, key, value, mem) ==
    LET g == IF h.size_ + h.tombstones_ >= h.load_threshold_
             THEN LET r == oa_grow(h, mem)
                  IN  IF r.ret # "ok" THEN r
                      ELSE Result([r.h EXCEPT !.tombstones_ = 0], "ok", FALSE,
                                  r.grows, r.h)
             ELSE Result(h, "ok", FALSE, 0, h)
    IN  IF g.ret # "ok" THEN g
        ELSE LET p == oa_insert_probe(g.h, key, value,
                                      Home(key, g.h.capacity_ - 1),
                                      g.h.capacity_, 0)
             IN  Result(p.h, p.ret, FALSE, g.grows, g.mid)

\* oa_search_probe that compares the key without looking at the state
RECURSIVE oa_search_probe_anystate(_, _, _, _)
oa_search_probe_anystate(h, key, idx, steps) ==
    LET mask == h.capacity_ - 1
        e == h.oa_entries_[idx]
    IN  IF steps >= h.capacity_ THEN [ret |-> "hang", found |-> FALSE, value |-> NoValue]
        ELSE IF e.state = EMPTY THEN [ret |-> "ok", found |-> FALSE, value |-> NoValue]
        ELSE IF e.key = key
        THEN [ret |-> "ok", found |-> TRUE, value |-> e.value]
        ELSE oa_search_probe_anystate(h, key, BitAnd(idx + 1, mask), steps + 1)

RECURSIVE oa_search_probe(_, _, _, _)
oa_search_probe(h, key, idx, steps) ==
    LET mask == h.capacity_ - 1
        e == h.oa_entries_[idx]
    IN  IF steps >= h.capacity_ THEN [ret |-> "hang", found |-> FALSE, value |-> NoValue]
        ELSE IF e.state = EMPTY THEN [ret |-> "ok", found |-> FALSE, value |-> NoValue]
        ELSE IF e.state = OCCUPIED /\ e.key = key
        THEN [ret |-> "ok", found |-> TRUE, value |-> e.value]
        ELSE oa_search_probe(h, key, BitAnd(idx + 1, mask), steps + 1)

oa_search(h, key) == oa_search_probe(h, key, Home(key, h.capacity_ - 1), 0)

\* oa_remove_probe that marks the slot EMPTY instead of TOMBSTONE
RECURSIVE oa_remove_probe_empty(_, _, _, _)
oa_remove_probe_empty(h, key, idx, steps) ==
    LET mask == h.capacity_ - 1
        e == h.oa_entries_[idx]
    IN  IF steps >= h.capacity_ THEN Result(h, "hang", FALSE, 0, h)
        ELSE IF e.state = EMPTY THEN Result(h, "ok", FALSE, 0, h)
        ELSE IF e.state = OCCUPIED /\ e.key = key
        THEN LET h1 == [h EXCEPT
                          !.oa_entries_[idx] =
                              [e EXCEPT !.value = NoValue, !.alive = FALSE,
                                        !.state = EMPTY],
                          !.size_ = h.size_ - 1]
             IN  Result(h1, "ok", TRUE, 0, h1)
        ELSE oa_remove_probe_empty(h, key, BitAnd(idx + 1, mask), steps + 1)

\* oa_remove_probe that compares the key without looking at the state
RECURSIVE oa_remove_probe_anystate(_, _, _, _)
oa_remove_probe_anystate(h, key, idx, steps) ==
    LET mask == h.capacity_ - 1
        e == h.oa_entries_[idx]
    IN  IF steps >= h.capacity_ THEN Result(h, "hang", FALSE, 0, h)
        ELSE IF e.state = EMPTY THEN Result(h, "ok", FALSE, 0, h)
        ELSE IF e.key = key
        THEN LET h1 == [h EXCEPT
                          !.oa_entries_[idx] =
                              [e EXCEPT !.value = NoValue, !.alive = FALSE,
                                        !.state = TOMBSTONE],
                          !.size_ = h.size_ - 1,
                          !.tombstones_ = h.tombstones_ + 1]
             IN  Result(h1, "ok", TRUE, 0, h1)
        ELSE oa_remove_probe_anystate(h, key, BitAnd(idx + 1, mask), steps + 1)

RECURSIVE oa_remove_probe(_, _, _, _)
oa_remove_probe(h, key, idx, steps) ==
    LET mask == h.capacity_ - 1
        e == h.oa_entries_[idx]
    IN  IF steps >= h.capacity_ THEN Result(h, "hang", FALSE, 0, h)
        ELSE IF e.state = EMPTY THEN Result(h, "ok", FALSE, 0, h)
        ELSE IF e.state = OCCUPIED /\ e.key = key
        THEN LET h1 == [h EXCEPT
                          !.oa_entries_[idx] =
                              [e EXCEPT !.value = NoValue, !.alive = FALSE,
                                        !.state = TOMBSTONE],
                          !.size_ = h.size_ - 1,
                          !.tombstones_ = h.tombstones_ + 1]
             IN  Result(h1, "ok", TRUE, 0, h1)
        ELSE oa_remove_probe(h, key, BitAnd(idx + 1, mask), steps + 1)

oa_remove(h, key) == oa_remove_probe(h, key, Home(key, h.capacity_ - 1), 0)

(***************************************************************************)
(* MemoryPool<SCNode, ChunkSize>.  A pool record is [cells, free_list_,    *)
(* chunks_]: the cells of chunk c (counted from 0) are c * ChunkSize + 1   *)
(* .. (c + 1) * ChunkSize, chunks_ is the number of chunks owned.  A cell  *)
(* is [tag, key, value, next]: with tag "free" its storage is a Slot whose *)
(* next links the free list, with tag "node" it is an SCNode.              *)
(***************************************************************************)
FreeCell(next) == [tag |-> "free", key |-> 0, value |-> NoValue, next |-> next]

\* chunks_.push_back allocates when size() = capacity(); a vector that
\* doubles its capacity from 0 does so at sizes 0, 1, 2, 4, ...
PushBackAllocates(n) == BitAnd(n, n - 1) = 0

\* make_unique_array throws std::bad_alloc before anything is touched.  The
\* cells are linked before chunks_.push_back: when push_back throws, the
\* unique_array frees the chunk and free_list_ is left pointing at a cell of
\* it, a cell that is in no chunk of the pool (not in DOMAIN cells)
add_chunk(p, mem) ==
    IF ~mem.chunk THEN [p |-> p, ret |-> "bad_alloc"]
    ELSE LET base == p.chunks_ * ChunkSize
             new == (base + 1)..(base + ChunkSize)
         IN  IF ~mem.push /\ PushBackAllocates(p.chunks_)
             THEN [p |-> [p EXCEPT !.free_list_ = base + ChunkSize],
                   ret |-> "bad_alloc"]
             ELSE [p |-> [cells |-> [c \in (DOMAIN p.cells) \cup new |->
                                       IF c \in new
                                       THEN FreeCell(IF c = base + 1
                                                     THEN p.free_list_ ELSE c - 1)
                                       ELSE p.cells[c]],
                         free_list_ |-> base + ChunkSize,
                         chunks_ |-> p.chunks_ + 1],
                   ret |-> "ok"]

\* MemoryPool() : free_list_(nullptr) { add_chunk(); }
MemoryPool ==
    add_chunk([cells |-> << >>, free_list_ |-> nullptr, chunks_ |-> 0], MemOK).p

\* MemoryPool::allocate; val is the cell handed out
pool_allocate(p, mem) ==
    LET a == IF p.free_list_ = nullptr THEN add_chunk(p, mem)
             ELSE [p |-> p, ret |-> "ok"]
    IN  IF a.ret # "ok" THEN [p |-> a.p, ret |-> a.ret, val |-> nullptr]
        ELSE LET slot == a.p.free_list_
             IN  [p |-> [a.p EXCEPT !.free_list_ = a.p.cells[slot].next],
                  ret |-> "ok", val |-> slot]

\* pool_deallocate that makes the cell the whole free list
pool_deallocate_alone(p, ptr) ==
    IF ptr = nullptr THEN p
    ELSE [p EXCEPT !.cells[ptr] = FreeCell(nullptr), !.free_list_ = ptr]

\* MemoryPool::deallocate
pool_deallocate(p, ptr) ==
    IF ptr = nullptr THEN p
    ELSE [p EXCEPT !.cells[ptr] = FreeCell(p.free_list_), !.free_list_ = ptr]

(***************************************************************************)
(* Separate chaining.                                                      *)
(***************************************************************************)
\* val is the new node
create_node(h, key, value, mem) ==
    LET a == pool_allocate(h.sc_pool_, mem)
    IN  IF a.ret # "ok"
        THEN Result([h EXCEPT !.sc_pool_ = a.p], a.ret, nullptr, 0, h)
        ELSE LET h1 == [h EXCEPT !.sc_pool_ =
                          [a.p EXCEPT !.cells[a.val] =
                              [tag |-> "node", key |-> key, value |-> value,
                               next |-> nullptr]]]
             IN  Result(h1, "ok", a.val, 0, h1)

destroy_node(h, node) ==
    IF node = nullptr THEN h
    ELSE [h EXCEPT !.sc_pool_ = pool_deallocate(h.sc_pool_, node)]

\* capacity_ is assigned before the bucket array is allocated
sc_init(h, cap, mem) ==
    LET h1 == [h EXCEPT !.capacity_ = cap]
    IN  IF ~mem.arr
        THEN Result(h1, "bad_alloc", FALSE, 0, h1)
        ELSE LET h2 == [h1 EXCEPT !.buckets_ = [i \in 0..(cap - 1) |-> nullptr]]
             IN  Result(h2, "ok", FALSE, 0, h2)

\* the while loop of sc_clear over one chain
RECURSIVE sc_clear_chain(_, _)
sc_clear_chain(h, n) ==
    IF n = nullptr THEN h
    ELSE LET next == h.sc_pool_.cells[n].next
         IN  sc_clear_chain(destroy_node(h, n), next)

RECURSIVE sc_clear_loop(_, _)
sc_clear_loop(h, i) ==
    IF i >= h.capacity_ THEN h
    ELSE LET h1 == sc_clear_chain(h, h.buckets_[i])
         IN  sc_clear_loop([h1 EXCEPT !.buckets_[i] = nullptr], i + 1)

sc_clear(h) ==
    IF h.buckets_ = NullArray THEN h
    ELSE [sc_clear_loop(h, 0) EXCEPT !.sc_node_count_ = 0]

sc_free(h) ==
    IF h.buckets_ = NullArray THEN h
    ELSE [h EXCEPT !.buckets_ = NullArray]

\* for (SCNode* n = ...; n; n = n->next) if (n->key == key): the node found
RECURSIVE sc_find(_, _, _)
sc_find(h, n, key) ==
    IF n = nullptr THEN nullptr
    ELSE IF h.sc_pool_.cells[n].key = key THEN n
    ELSE sc_find(h, h.sc_pool_.cells[n].next, key)

RECURSIVE sc_insert(_, _, _, _)
RECURSIVE sc_rehash_chain(_, _, _, _)
RECURSIVE sc_rehash_loop(_, _, _, _, _, _)

\* the while loop of sc_grow_if_needed over one old chain
sc_rehash_chain(h, n, mem, grows) ==
    IF n = nullptr THEN Result(h, "ok", FALSE, grows, h)
    ELSE LET r == sc_insert(h, h.sc_pool_.cells[n].key, h.sc_pool_.cells[n].value, mem)
         IN  IF r.ret # "ok" THEN Result(r.h, r.ret, FALSE, grows + r.grows, r.h)
             ELSE LET next == r.h.sc_pool_.cells[n].next
                  IN  sc_rehash_chain(destroy_node(r.h, n), next, mem,
                                      grows + r.grows)

\* the for loop of sc_grow_if_needed over the old buckets
sc_rehash_loop(h, old_buckets, i, old_cap, mem, grows) ==
    IF i >= old_cap THEN Result(h, "ok", FALSE, grows, h)
    ELSE LET r == sc_rehash_chain(h, old_buckets[i], mem, grows)
         IN  IF r.ret # "ok" THEN r
             ELSE sc_rehash_loop(r.h, old_buckets, i + 1, old_cap, mem, r.grows)

\* sc_grow_if_needed that rehashes only when size_ > capacity_
sc_grow_if_needed_full(h, mem) ==
    IF h.size_ <= h.capacity_ THEN Result(h, "ok", FALSE, 0, h)
    ELSE LET new_cap == IF h.capacity_ # 0 THEN h.capacity_ * 2 ELSE 16
             old_buckets == h.buckets_
             old_cap == h.capacity_
             i == sc_init(h, new_cap, mem)
             old_size == h.size_
         IN  IF i.ret # "ok" THEN i
             ELSE LET r == sc_rehash_loop([i.h EXCEPT !.size_ = 0], old_buckets,
                                          0, old_cap, mem, 0)
                  IN  IF r.ret # "ok" THEN r
                      ELSE LET h1 == [r.h EXCEPT !.size_ = old_size]
                           IN  Result(h1, "ok", FALSE, 1 + r.grows, h1)

\* sc_grow_if_needed that grows the bucket array by half
sc_grow_if_needed_half(h, mem) ==
    IF 4 * h.size_ <= 3 * h.capacity_ THEN Result(h, "ok", FALSE, 0, h)
    ELSE LET new_cap == IF h.capacity_ # 0 THEN (h.capacity_ * 3) \div 2 ELSE 16
             old_buckets == h.buckets_
             old_cap == h.capacity_
             i == sc_init(h, new_cap, mem)
             old_size == h.size_
         IN  IF i.ret # "ok" THEN i
             ELSE LET r == sc_rehash_loop([i.h EXCEPT !.size_ = 0], old_buckets,
                                          0, old_cap, mem, 0)
                  IN  IF r.ret # "ok" THEN r
                      ELSE LET h1 == [r.h EXCEPT !.size_ = old_size]
                           IN  Result(h1, "ok", FALSE, 1 + r.grows, h1)

\* size_ <= capacity_ * 0.75 compares doubles; 0.75 * capacity_ is exact
sc_grow_if_needed(h, mem) ==
    IF 4 * h.size_ <= 3 * h.capacity_ THEN Result(h, "ok", FALSE, 0, h)
    ELSE LET new_cap == IF h.capacity_ # 0 THEN h.capacity_ * 2 ELSE 16
             old_buckets == h.buckets_
             old_cap == h.capacity_
             i == sc_init(h, new_cap, mem)
             old_size == h.size_
         IN  IF i.ret # "ok" THEN i
             ELSE LET r == sc_rehash_loop([i.h EXCEPT !.size_ = 0], old_buckets,
                                          0, old_cap, mem, 0)
                  IN  IF r.ret # "ok" THEN r
                      ELSE LET h1 == [r.h EXCEPT !.size_ = old_size]
                           IN  Result(h1, "ok", FALSE, 1 + r.grows, h1)

\* sc_insert that leaves the value of a key it finds as it is
sc_insert_keepfirst(h, key, value, mem) ==
    LET g == sc_grow_if_needed(h, mem)
    IN  IF g.ret # "ok" THEN g
        ELSE LET idx == Home(key, g.h.capacity_ - 1)
                 n == sc_find(g.h, g.h.buckets_[idx], key)
             IN  IF n # nullptr
                 THEN Result(g.h, "ok", FALSE, g.grows, g.h)
                 ELSE LET c == create_node(g.h, key, value, mem)
                      IN  IF c.ret # "ok"
                          THEN Result(c.h, c.ret, FALSE, g.grows, g.h)
                          ELSE Result([c.h EXCEPT
                                         !.sc_pool_.cells[c.val].next = g.h.buckets_[idx],
                                         !.buckets_[idx] = c.val,
                                         !.size_ = c.h.size_ + 1,
                                         !.sc_node_count_ = c.h.sc_node_count_ + 1],
                                      "ok", FALSE, g.grows, g.h)

sc_insert(h, key, value, mem) ==
    LET g == sc_grow_if_needed(h, mem)
    IN  IF g.ret # "ok" THEN g
        ELSE LET idx == Home(key, g.h.capacity_ - 1)
                 n == sc_find(g.h, g.h.buckets_[idx], key)
             IN  IF n # nullptr
                 THEN Result([g.h EXCEPT !.sc_pool_.cells[n].value = value],
                             "ok", FALSE, g.grows, g.h)
                 ELSE LET c == create_node(g.h, key, value, mem)
                      IN  IF c.ret # "ok"
                          THEN Result(c.h, c.ret, FALSE, g.grows, g.h)
                          ELSE Result([c.h EXCEPT
                                         !.sc_pool_.cells[c.val].next = g.h.buckets_[idx],
                                         !.buckets_[idx] = c.val,
                                         !.size_ = c.h.size_ + 1,
                                         !.sc_node_count_ = c.h.sc_node_count_ + 1],
                                      "ok", FALSE, g.grows, g.h)

\* sc_search that looks at the first node of the bucket only
sc_search_first(h, key) ==
    LET idx == Home(key, h.capacity_ - 1)
        n == h.buckets_[idx]
    IN  IF n # nullptr /\ h.sc_pool_.cells[n].key = key
        THEN [ret |-> "ok", found |-> TRUE, value |-> h.sc_pool_.cells[n].value]
        ELSE [ret |-> "ok", found |-> FALSE, value |-> NoValue]

sc_search(h, key) ==
    LET idx == Home(key, h.capacity_ - 1)
        n == sc_find(h, h.buckets_[idx], key)
    IN  IF n # nullptr
        THEN [ret |-> "ok", found |-> TRUE, value |-> h.sc_pool_.cells[n].value]
        ELSE [ret |-> "ok", found |-> FALSE, value |-> NoValue]

\* the while loop of sc_remove without --size_
RECURSIVE sc_remove_scan_keepsize(_, _, _, _, _)
sc_remove_scan_keepsize(h, key, idx, prev, cur) ==
    IF cur = nullptr THEN Result(h, "ok", FALSE, 0, h)
    ELSE IF h.sc_pool_.cells[cur].key = key
    THEN LET next == h.sc_pool_.cells[cur].next
             h1 == IF prev # nullptr
                   THEN [h EXCEPT !.sc_pool_.cells[prev].next = next]
                   ELSE [h EXCEPT !.buckets_[idx] = next]
             h2 == destroy_node(h1, cur)
             h3 == [h2 EXCEPT !.sc_node_count_ = h2.sc_node_count_ - 1]
         IN  Result(h3, "ok", TRUE, 0, h3)
    ELSE sc_remove_scan_keepsize(h, key, idx, cur, h.sc_pool_.cells[cur].next)

\* the while loop of sc_remove
RECURSIVE sc_remove_scan(_, _, _, _, _)
sc_remove_scan(h, key, idx, prev, cur) ==
    IF cur = nullptr THEN Result(h, "ok", FALSE, 0, h)
    ELSE IF h.sc_pool_.cells[cur].key = key
    THEN LET next == h.sc_pool_.cells[cur].next
             h1 == IF prev # nullptr
                   THEN [h EXCEPT !.sc_pool_.cells[prev].next = next]
                   ELSE [h EXCEPT !.buckets_[idx] = next]
             h2 == destroy_node(h1, cur)
             h3 == [h2 EXCEPT !.size_ = h2.size_ - 1,
                              !.sc_node_count_ = h2.sc_node_count_ - 1]
         IN  Result(h3, "ok", TRUE, 0, h3)
    ELSE sc_remove_scan(h, key, idx, cur, h.sc_pool_.cells[cur].next)

sc_remove(h, key) ==
    LET idx == Home(key, h.capacity_ - 1)
    IN  sc_remove_scan(h, key, idx, nullptr, h.buckets_[idx])

(***************************************************************************)
(* The public interface.                                                   *)
(***************************************************************************)
\* the member initialisers (hash_map.h:329-343) followed by the constructor
HashMap(strategy, initial_capacity) ==
    LET h0 == [strategy_ |-> strategy, size_ |-> 0, capacity_ |-> 0,
               oa_entries_ |-> NullArray, load_threshold_ |-> 0,
               tombstones_ |-> 0,
               buckets_ |-> NullArray, sc_pool_ |-> MemoryPool,
               sc_node_count_ |-> 0]
        n == IF initial_capacity = 0 THEN 16 ELSE initial_capacity
    IN  IF strategy = OPEN_ADDRESSING
        THEN oa_init(h0, capacity_round_up(n), MemOK).h
        ELSE sc_init(h0, capacity_round_up(n), MemOK).h

insert(h, key, value, mem) ==
    IF h.strategy_ = OPEN_ADDRESSING
    THEN oa_insert(h, key, value, mem) ELSE sc_insert(h, key, value, mem)

search(h, key) ==
    IF h.strategy_ = OPEN_ADDRESSING THEN oa_search(h, key) ELSE sc_search(h, key)

remove(h, key) ==
    IF h.strategy_ = OPEN_ADDRESSING THEN oa_remove(h, key) ELSE sc_remove(h, key)

size(h) == h.size_

empty(h) == h.size_ = 0

clear(h) ==
    LET h1 == IF h.strategy_ = OPEN_ADDRESSING THEN oa_clear(h) ELSE sc_clear(h)
    IN  [h1 EXCEPT !.size_ = 0]

\* sizeof(OAEntry), sizeof(SCNode*), sizeof(SCNode) and sizeof(*this) are
\* implementation-defined; these are the sizes of an LP64 build with a
\* 32-byte std::string
SizeofOAEntry == 48
SizeofSCNodePtr == 8
SizeofSCNode == 48
SizeofHashMap == 160

memory_usage(h) ==
    IF h.strategy_ = OPEN_ADDRESSING
    THEN (h.capacity_ * SizeofOAEntry) + SizeofHashMap
    ELSE (h.capacity_ * SizeofSCNodePtr) + (h.sc_node_count_ * SizeofSCNode)
         + SizeofHashMap

free_storage(h) ==
    IF h.strategy_ = OPEN_ADDRESSING THEN oa_free(h) ELSE sc_free(h)

\* set_strategy that frees the storage before it tests size_
set_strategy_free_first(h, s, mem) ==
    IF s = h.strategy_ THEN Result(h, "ok", FALSE, 0, h)
    ELSE LET h0 == free_storage(h)
         IN  IF h.size_ # 0 THEN Result(h0, "runtime_error", FALSE, 0, h0)
             ELSE LET h1 == [h0 EXCEPT !.strategy_ = s]
                  IN  IF s = OPEN_ADDRESSING THEN oa_init(h1, 16, mem)
                      ELSE sc_init(h1, 16, mem)

\* set_strategy that builds the storage of s and leaves strategy_ as it was
set_strategy_keep(h, s, mem) ==
    IF s = h.strategy_ THEN Result(h, "ok", FALSE, 0, h)
    ELSE IF h.size_ # 0 THEN Result(h, "runtime_error", FALSE, 0, h)
    ELSE LET h1 == free_storage(h)
         IN  IF s = OPEN_ADDRESSING THEN oa_init(h1, 16, mem)
             ELSE sc_init(h1, 16, mem)

\* "runtime_error": the std::runtime_error thrown on a table that is not empty
set_strategy(h, s, mem) ==
    IF s = h.strategy_ THEN Result(h, "ok", FALSE, 0, h)
    ELSE IF h.size_ # 0 THEN Result(h, "runtime_error", FALSE, 0, h)
    ELSE LET h1 == [free_storage(h) EXCEPT !.strategy_ = s]
         IN  IF s = OPEN_ADDRESSING THEN oa_init(h1, 16, mem)
             ELSE sc_init(h1, 16, mem)

(***************************************************************************)
(* State: the fields of one HashMap object, and two history variables.     *)
(*   ref   what the callers have stored: the value last inserted for each  *)
(*         key and not removed or cleared since, NoValue otherwise         *)
(*   last  the last call: its operation, arguments and outcome; had says   *)
(*         whether the key was stored (in ref) when the call was made, s   *)
(*         is the strategy argument of set_strategy (the strategy of the   *)
(*         table for the other calls) and n the initial_capacity argument  *)
(*         of the constructor                                              *)
(* and the callers of the pool where sc_pool_ is used directly:            *)
(*   mutex_   the std::mutex of the pool: the thread that holds it, 0 if   *)
(*            none does                                                    *)
(*   threads  for each thread its position pc in allocate or deallocate    *)
(*            ("idle" outside a call), the local slot of the call and the  *)
(*            set of cells it holds                                        *)
(* and, where two tables are given the same calls:                         *)
(*   twin     the second table, as an object record (NoTwin if none)       *)
(***************************************************************************)
VARIABLES strategy_, size_, capacity_, oa_entries_, load_threshold_,
          tombstones_, buckets_, sc_pool_, sc_node_count_, ref, last,
          mutex_, threads, twin

fields == <<strategy_, size_, capacity_, oa_entries_, load_threshold_,
            tombstones_, buckets_, sc_pool_, sc_node_count_>>

vars == <<strategy_, size_, capacity_, oa_entries_, load_threshold_,
          tombstones_, buckets_, sc_pool_, sc_node_count_, ref, last,
          mutex_, threads, twin>>

NoTwin == << >>

Threads == 1..NumThreads

\* no thread is in a call of the pool and none holds a cell
NoCallers == [t \in Threads |-> [pc |-> "idle", slot |-> nullptr, held |-> {}]]

\* the object as a record
Self ==
    [strategy_ |-> strategy_, size_ |-> size_, capacity_ |-> capacity_,
     oa_entries_ |-> oa_entries_, load_threshold_ |-> load_threshold_,
     tombstones_ |-> tombstones_,
     buckets_ |-> buckets_, sc_pool_ |-> sc_pool_,
     sc_node_count_ |-> sc_node_count_]

\* the fields of the object become those of h
FieldsBecome(h) ==
    /\ strategy_' = h.strategy_
    /\ size_' = h.size_
    /\ capacity_' = h.capacity_
    /\ oa_entries_' = h.oa_entries_
    /\ load_threshold_' = h.load_threshold_
    /\ tombstones_' = h.tombstones_
    /\ buckets_' = h.buckets_
    /\ sc_pool_' = h.sc_pool_
    /\ sc_node_count_' = h.sc_node_count_

\* the object becomes h
Becomes(h) == FieldsBecome(h) /\ UNCHANGED <<mutex_, threads, twin>>

\* what the callers can observe of an object h
Observed(h) ==
    [size |-> size(h), empty |-> empty(h),
     search |-> [k \in Keys |-> search(h, k)]]

NoObject == [size |-> 0]

Call(op, key, value, had, r) ==
    [op |-> op, key |-> key, value |-> value, had |-> had,
     s |-> strategy_, n |-> 0,
     ret |-> r.ret, val |-> r.val, grows |-> r.grows,
     mid |-> IF r.grows > 0 THEN Observed(r.mid) ELSE NoObject]

\* the array of the active strategy has capacity_ elements.  It does not
\* after a std::bad_alloc thrown by oa_init or sc_init: every later probe
\* would index past the array (or through nullptr), which is undefined, and
\* the model follows the object no further
InBounds(h) ==
    LET a == IF h.strategy_ = OPEN_ADDRESSING THEN h.oa_entries_ ELSE h.buckets_
    IN  DOMAIN a = 0..(h.capacity_ - 1)

\* a call can be made: the previous one returned and left a usable object
Callable == last.ret # "hang" /\ InBounds(Self)

\* a table constructed with an initial_capacity of requests
InitWith(requests) ==
    /\ \E s \in HashStrategy, n \in requests :
          LET h == HashMap(s, n)
          IN  /\ strategy_ = h.strategy_
              /\ size_ = h.size_
              /\ capacity_ = h.capacity_
              /\ oa_entries_ = h.oa_entries_
              /\ load_threshold_ = h.load_threshold_
              /\ tombstones_ = h.tombstones_
              /\ buckets_ = h.buckets_
              /\ sc_pool_ = h.sc_pool_
              /\ sc_node_count_ = h.sc_node_count_
              /\ last = [Call("HashMap", 0, NoValue, FALSE,
                              Result(h, "ok", FALSE, 0, h)) EXCEPT !.n = n]
    /\ ref = [k \in Keys |-> NoValue]
    /\ mutex_ = 0
    /\ threads = NoCallers
    /\ twin = NoTwin

Init == InitWith(1..MaxInitCap)

\* a constructor call with any initial_capacity up to MaxRequest, 0 included
InitConstruct == InitWith(0..MaxRequest)

Insert ==
    \E k \in Keys, v \in Values :
        LET r == insert(Self, k, v, MemOK)
        IN  /\ Callable
            /\ (r.grows = 0 \/ r.h.capacity_ <= MaxCapacity)
            /\ Becomes(r.h)
            /\ ref' = IF r.ret = "ok" THEN [ref EXCEPT ![k] = v] ELSE ref
            /\ last' = Call("insert", k, v, ref[k] # NoValue, r)

\* an insert during which TrackedAllocator::allocate may throw std::bad_alloc
\* (arr = FALSE: the allocation of the call, if it makes one, fails)
InsertMayFail ==
    \E k \in Keys, v \in Values, arr \in BOOLEAN :
        LET r == insert(Self, k, v, [arr |-> arr, chunk |-> TRUE, push |-> TRUE])
        IN  /\ Callable
            /\ arr \/ r.ret = "bad_alloc"
            /\ r.h.capacity_ <= MaxCapacity
            /\ Becomes(r.h)
            /\ ref' = IF r.ret = "ok" THEN [ref EXCEPT ![k] = v] ELSE ref
            /\ last' = Call("insert", k, v, ref[k] # NoValue, r)

\* search is const: it changes no field, and what it returns is search(Self, k)
Search ==
    \E k \in Keys :
        /\ Callable
        /\ search(Self, k).ret = "ok"
        /\ UNCHANGED vars

Remove ==
    \E k \in Keys :
        LET r == remove(Self, k)
        IN  /\ Callable
            /\ Becomes(r.h)
            /\ ref' = IF r.ret = "ok" THEN [ref EXCEPT ![k] = NoValue] ELSE ref
            /\ last' = Call("remove", k, NoValue, ref[k] # NoValue, r)

Clear ==
    LET h == clear(Self)
    IN  /\ Callable
        /\ Becomes(h)
        /\ ref' = [k \in Keys |-> NoValue]
        /\ last' = Call("clear", 0, NoValue, FALSE, Result(h, "ok", FALSE, 0, h))

SetStrategy ==
    \E s \in HashStrategy :
        LET r == set_strategy(Self, s, MemOK)
        IN  /\ Callable
            /\ Becomes(r.h)
            /\ ref' = ref
            /\ last' = [Call("set_strategy", 0, NoValue, FALSE, r) EXCEPT !.s = s]

Next == Insert \/ Search \/ Remove \/ Clear

\* insert, search, remove and clear on one table; every allocation succeeds
Spec == Init /\ [][Next]_vars

\* as Spec, on tables constructed with any initial_capacity up to MaxRequest
SpecConstruct == InitConstruct /\ [][Next]_vars

NextBadAlloc == InsertMayFail \/ Search \/ Remove \/ Clear

\* the allocation of a table array may fail
SpecBadAlloc == Init /\ [][NextBadAlloc]_vars

\* an insert on a table whose strategy may have been switched: set_strategy
\* leaves capacity 16, and growth is followed up to MaxSwitchedCapacity
InsertSwitched ==
    \E k \in Keys, v \in Values :
        LET r == insert(Self, k, v, MemOK)
        IN  /\ Callable
            /\ (r.grows = 0 \/ r.h.capacity_ <= MaxSwitchedCapacity)
            /\ Becomes(r.h)
            /\ ref' = IF r.ret = "ok" THEN [ref EXCEPT ![k] = v] ELSE ref
            /\ last' = Call("insert", k, v, ref[k] # NoValue, r)

NextStrategy == Insert \/ Search \/ Remove \/ Clear \/ SetStrategy

\* as Spec, and the strategy may be switched
SpecStrategy == Init /\ [][NextStrategy]_vars

\* a table constructed with an initial_capacity of MaxInitCap or MaxRequest
InitSwitched == InitWith({MaxInitCap, MaxRequest})

NextSwitched == InsertSwitched \/ Search \/ Remove \/ Clear \/ SetStrategy

\* the strategy may be switched, and the table grows after the switch
SpecSwitched == InitSwitched /\ [][NextSwitched]_vars

(***************************************************************************)
(* Two tables, an open-addressing one (the object) and a chaining one      *)
(* (twin), are constructed and given the same calls.                       *)
(***************************************************************************)
\* a call made on both tables: the outcome r on the object, rt on twin
TwinCall(op, key, value, r, rt) ==
    [op |-> op, key |-> key, value |-> value,
     ret |-> r.ret, val |-> r.val, grows |-> r.grows,
     tret |-> rt.ret, tval |-> rt.val, tgrows |-> rt.grows]

InitTwin ==
    /\ \E n \in 1..MaxInitCap, m \in 1..MaxInitCap :
          LET h == HashMap(OPEN_ADDRESSING, n)
          IN  /\ strategy_ = h.strategy_
              /\ size_ = h.size_
              /\ capacity_ = h.capacity_
              /\ oa_entries_ = h.oa_entries_
              /\ load_threshold_ = h.load_threshold_
              /\ tombstones_ = h.tombstones_
              /\ buckets_ = h.buckets_
              /\ sc_pool_ = h.sc_pool_
              /\ sc_node_count_ = h.sc_node_count_
              /\ twin = HashMap(SEPARATE_CHAINING, m)
              /\ last = TwinCall("HashMap", 0, NoValue,
                                 Result(h, "ok", FALSE, 0, h),
                                 Result(twin, "ok", FALSE, 0, twin))
    /\ ref = [k \in Keys |-> NoValue]
    /\ mutex_ = 0
    /\ threads = NoCallers

TwinInsert ==
    \E k \in Keys, v \in Values :
        LET r == oa_insert(Self, k, v, MemOK)
            rt == sc_insert(twin, k, v, MemOK)
        IN  /\ last.ret # "hang" /\ last.tret # "hang"
            /\ (r.grows = 0 \/ r.h.capacity_ <= MaxCapacity)
            /\ (rt.grows = 0 \/ rt.h.capacity_ <= MaxCapacity)
            /\ FieldsBecome(r.h)
            /\ twin' = rt.h
            /\ ref' = [ref EXCEPT ![k] = v]
            /\ last' = TwinCall("insert", k, v, r, rt)
            /\ UNCHANGED <<mutex_, threads>>

\* search is const; what the calls return is search(Self, k) and
\* search(twin, k)
TwinSearch ==
    \E k \in Keys :
        /\ last.ret # "hang" /\ last.tret # "hang"
        /\ search(Self, k).ret = "ok" /\ search(twin, k).ret = "ok"
        /\ UNCHANGED vars

TwinRemove ==
    \E k \in Keys :
        LET r == oa_remove(Self, k)
            rt == sc_remove(twin, k)
        IN  /\ last.ret # "hang" /\ last.tret # "hang"
            /\ FieldsBecome(r.h)
            /\ twin' = rt.h
            /\ ref' = [ref EXCEPT ![k] = NoValue]
            /\ last' = TwinCall("remove", k, NoValue, r, rt)
            /\ UNCHANGED <<mutex_, threads>>

TwinClear ==
    LET h == clear(Self)
        ht == clear(twin)
    IN  /\ last.ret # "hang" /\ last.tret # "hang"
        /\ FieldsBecome(h)
        /\ twin' = ht
        /\ ref' = [k \in Keys |-> NoValue]
        /\ last' = TwinCall("clear", 0, NoValue,
                            Result(h, "ok", FALSE, 0, h),
                            Result(ht, "ok", FALSE, 0, ht))
        /\ UNCHANGED <<mutex_, threads>>

NextTwin == TwinInsert \/ TwinSearch \/ TwinRemove \/ TwinClear

\* the same sequence of calls on an open-addressing and a chaining table
SpecTwin == InitTwin /\ [][NextTwin]_vars

(***************************************************************************)
(* The pool used directly: threads call sc_pool_.allocate() and            *)
(* sc_pool_.deallocate(ptr) on the pool of one table, whose other fields   *)
(* no call touches.                                                        *)
(***************************************************************************)
tableFields == <<strategy_, size_, capacity_, oa_entries_, load_threshold_,
                 tombstones_, buckets_, sc_node_count_, ref, twin>>

\* the pool of a table that was just constructed
InitPool == InitWith({1}) /\ strategy_ = SEPARATE_CHAINING

\* free_list_ is nullptr or points at a cell of a chunk the pool owns; after
\* add_chunk failed in push_back it points into freed memory, every later
\* call would read or write through it, which is undefined, and the model
\* follows the pool no further
PoolUsable(p) == p.free_list_ = nullptr \/ p.free_list_ \in DOMAIN p.cells

\* the cells held by the callers, or passed to a call that has not returned
InHand(t) ==
    threads[t].held \cup (IF threads[t].pc \in {"idle", "a_lock", "a_test", "a_read"}
                          THEN {} ELSE {threads[t].slot})

\* the caller of allocate constructs its object in the cell it was handed
Constructed(p, cell) ==
    [p EXCEPT !.cells[cell] =
        [tag |-> "node", key |-> 0, value |-> NoValue, next |-> nullptr]]

\* a call of the pool: last records the operation, the calling thread, which
\* backing allocations could succeed, the argument and the outcome
PoolCall(op, t, mem, ptr, ret, val) ==
    [op |-> op, thread |-> t, mem |-> mem, ptr |-> ptr, ret |-> ret, val |-> val]

\* a whole call of allocate by thread t, no other call being in progress;
\* chunks and pushes say whether the malloc of the chunk and the
\* reallocation of push_back may succeed (TRUE) and may fail (FALSE)
PoolAllocateBy(chunks, pushes) ==
    \E t \in Threads, chunk \in chunks, push \in pushes :
        LET mem == [arr |-> TRUE, chunk |-> chunk, push |-> push]
            a == pool_allocate(sc_pool_, mem)
        IN  /\ threads[t].pc = "idle" /\ mutex_ = 0
            /\ PoolUsable(sc_pool_)
            /\ sc_pool_.free_list_ # nullptr \/ sc_pool_.chunks_ < MaxChunks
            /\ (chunk /\ push) \/ a.ret = "bad_alloc"
            /\ sc_pool_' = IF a.ret = "ok" THEN Constructed(a.p, a.val) ELSE a.p
            /\ threads' = IF a.ret = "ok"
                          THEN [threads EXCEPT ![t].held = @ \cup {a.val}]
                          ELSE threads
            /\ last' = PoolCall("allocate", t, mem, nullptr, a.ret, a.val)
            /\ UNCHANGED <<tableFields, mutex_>>

\* every backing allocation succeeds
PoolAllocate == PoolAllocateBy({TRUE}, {TRUE})

\* either backing allocation of add_chunk may fail
PoolAllocateMayFail == PoolAllocateBy(BOOLEAN, BOOLEAN)

\* a whole call of deallocate by thread t, of a cell it holds or of nullptr
PoolDeallocate ==
    \E t \in Threads :
        \E ptr \in threads[t].held \cup {nullptr} :
            /\ threads[t].pc = "idle" /\ mutex_ = 0
            /\ PoolUsable(sc_pool_)
            /\ sc_pool_' = pool_deallocate(sc_pool_, ptr)
            /\ threads' = [threads EXCEPT ![t].held = @ \ {ptr}]
            /\ last' = PoolCall("deallocate", t, MemOK, ptr, "ok", nullptr)
            /\ UNCHANGED <<tableFields, mutex_>>

NextPool == PoolAllocate \/ PoolDeallocate

\* calls of allocate and deallocate on one pool, one at a time; every
\* backing allocation succeeds
SpecPool == InitPool /\ [][NextPool]_vars

NextPoolBadAlloc == PoolAllocateMayFail \/ PoolDeallocate

\* as SpecPool, and the backing allocations of a new chunk may fail
SpecPoolBadAlloc == InitPool /\ [][NextPoolBadAlloc]_vars

(***************************************************************************)
(* The same calls statement by statement, for threads that run them at the *)
(* same time.  pc is the statement the thread executes next:               *)
(*   allocate    a_lock (300)  a_test (301-303)  a_read (305)  a_pop (306) *)
(*               a_ret (307 and the end of the lock_guard)                 *)
(*   deallocate  d_lock (315)  d_link (316-317)  d_head (318)              *)
(*               d_ret (319, the end of the lock_guard)                    *)
(* "undefined" is a thread that dereferenced nullptr.                      *)
(***************************************************************************)
\* a lock_guard that does not wait for the mutex
lock_guard_nowait(t, pc, next) ==
    /\ threads[t].pc = pc
    /\ mutex_' = t
    /\ threads' = [threads EXCEPT ![t].pc = next]
    /\ UNCHANGED <<tableFields, sc_pool_, last>>

\* std::lock_guard<std::mutex> lock(mutex_): blocks while the mutex is held
lock_guard(t, pc, next) ==
    /\ threads[t].pc = pc
    /\ mutex_ = 0
    /\ mutex_' = t
    /\ threads' = [threads EXCEPT ![t].pc = next]
    /\ UNCHANGED <<tableFields, sc_pool_, last>>

\* the cells that are held or about to be handed out
Claimed ==
    UNION {threads[t].held : t \in Threads}

\* thread t calls allocate()
AllocateCall ==
    \E t \in Threads :
        /\ threads[t].pc = "idle"
        /\ Cardinality(Claimed)
             + Cardinality({u \in Threads : threads[u].pc \in
                              {"a_lock", "a_test", "a_read", "a_pop", "a_ret"}})
               < MaxChunks * ChunkSize
        /\ threads' = [threads EXCEPT ![t].pc = "a_lock"]
        /\ UNCHANGED <<tableFields, sc_pool_, mutex_, last>>

AllocateLock == \E t \in Threads : lock_guard(t, "a_lock", "a_test")

\* if (!free_list_) add_chunk();
AllocateTest ==
    \E t \in Threads :
        /\ threads[t].pc = "a_test"
        /\ sc_pool_' = IF sc_pool_.free_list_ = nullptr
                       THEN add_chunk(sc_pool_, MemOK).p ELSE sc_pool_
        /\ threads' = [threads EXCEPT ![t].pc = "a_read"]
        /\ UNCHANGED <<tableFields, mutex_, last>>

\* Slot* slot = free_list_;
AllocateRead ==
    \E t \in Threads :
        /\ threads[t].pc = "a_read"
        /\ threads' = [threads EXCEPT ![t].slot = sc_pool_.free_list_,
                                      ![t].pc = "a_pop"]
        /\ UNCHANGED <<tableFields, sc_pool_, mutex_, last>>

\* free_list_ = free_list_->next;
AllocatePop ==
    \E t \in Threads :
        /\ threads[t].pc = "a_pop"
        /\ IF sc_pool_.free_list_ = nullptr
           THEN /\ threads' = [threads EXCEPT ![t].pc = "undefined"]
                /\ UNCHANGED sc_pool_
           ELSE /\ sc_pool_' = [sc_pool_ EXCEPT
                                  !.free_list_ = sc_pool_.cells[sc_pool_.free_list_].next]
                /\ threads' = [threads EXCEPT ![t].pc = "a_ret"]
        /\ UNCHANGED <<tableFields, mutex_, last>>

\* return reinterpret_cast<T*>(slot); the lock_guard releases the mutex, and
\* the caller constructs its object in the cell
AllocateReturn ==
    \E t \in Threads :
        /\ threads[t].pc = "a_ret"
        /\ mutex_' = 0
        /\ sc_pool_' = IF threads[t].slot \in DOMAIN sc_pool_.cells
                       THEN Constructed(sc_pool_, threads[t].slot) ELSE sc_pool_
        /\ threads' = [threads EXCEPT ![t].held = @ \cup {threads[t].slot},
                                      ![t].slot = nullptr,
                                      ![t].pc = "idle"]
        /\ UNCHANGED <<tableFields, last>>

\* thread t calls deallocate(ptr) with a cell it holds, or with nullptr:
\* if (!ptr) return;
DeallocateCall ==
    \E t \in Threads :
        \E ptr \in threads[t].held \cup {nullptr} :
            /\ threads[t].pc = "idle"
            /\ threads' = IF ptr = nullptr THEN threads
                          ELSE [threads EXCEPT ![t].held = @ \ {ptr},
                                               ![t].slot = ptr,
                                               ![t].pc = "d_lock"]
            /\ UNCHANGED <<tableFields, sc_pool_, mutex_, last>>

DeallocateLock == \E t \in Threads : lock_guard(t, "d_lock", "d_link")

\* Slot* slot = reinterpret_cast<Slot*>(ptr); slot->next = free_list_;
DeallocateLink ==
    \E t \in Threads :
        /\ threads[t].pc = "d_link"
        /\ sc_pool_' = [sc_pool_ EXCEPT
                          !.cells[threads[t].slot] = FreeCell(sc_pool_.free_list_)]
        /\ threads' = [threads EXCEPT ![t].pc = "d_head"]
        /\ UNCHANGED <<tableFields, mutex_, last>>

\* free_list_ = slot;
DeallocateHead ==
    \E t \in Threads :
        /\ threads[t].pc = "d_head"
        /\ sc_pool_' = [sc_pool_ EXCEPT !.free_list_ = threads[t].slot]
        /\ threads' = [threads EXCEPT ![t].pc = "d_ret"]
        /\ UNCHANGED <<tableFields, mutex_, last>>

\* the lock_guard releases the mutex
DeallocateReturn ==
    \E t \in Threads :
        /\ threads[t].pc = "d_ret"
        /\ mutex_' = 0
        /\ threads' = [threads EXCEPT ![t].slot = nullptr, ![t].pc = "idle"]
        /\ UNCHANGED <<tableFields, sc_pool_, last>>

NextThreads ==
    \/ AllocateCall \/ AllocateLock \/ AllocateTest \/ AllocateRead
    \/ AllocatePop \/ AllocateReturn
    \/ DeallocateCall \/ DeallocateLock \/ DeallocateLink \/ DeallocateHead
    \/ DeallocateReturn

\* threads that call allocate and deallocate on one pool in any interleaving
SpecThreads == InitPool /\ [][NextThreads]_vars

(***************************************************************************)
(* Properties.                                                             *)
(***************************************************************************)
\* the keys the callers have stored
Stored == {k \in Keys : ref[k] # NoValue}

Found(v) == [ret |-> "ok", found |-> TRUE, value |-> v]

\* the slots whose state is st
SlotsIn(st) == {i \in DOMAIN oa_entries_ : oa_entries_[i].state = st}

\* the slots a probe for key visits before it reaches slot i
ProbePath(key, i) ==
    LET mask == capacity_ - 1
        home == Home(key, mask)
        dist == BitAnd(i + capacity_ - home, mask)
    IN  {BitAnd(home + d, mask) : d \in 0..(dist - 1)}

\* the node of a chaining table h that holds key, nullptr if none does
NodeOf(h, key) == sc_find(h, h.buckets_[Home(key, h.capacity_ - 1)], key)

\* what the callers observe of a table that holds exactly the pairs of m
ObservedOf(m) ==
    [size |-> Cardinality({k \in Keys : m[k] # NoValue}),
     empty |-> \A k \in Keys : m[k] = NoValue,
     search |-> [k \in Keys |->
                   IF m[k] # NoValue THEN Found(m[k])
                   ELSE [ret |-> "ok", found |-> FALSE, value |-> NoValue]]]

\* the number of nodes of the chain that starts at node n
RECURSIVE ChainLength(_, _)
ChainLength(h, n) ==
    IF n = nullptr THEN 0 ELSE 1 + ChainLength(h, h.sc_pool_.cells[n].next)

RECURSIVE LinkedFrom(_, _)
LinkedFrom(h, i) ==
    IF i >= h.capacity_ THEN 0
    ELSE ChainLength(h, h.buckets_[i]) + LinkedFrom(h, i + 1)

\* the number of nodes linked in the bucket chains of h
LinkedNodes(h) == LinkedFrom(h, 0)

\* n is a power of two
PowerOfTwo(n) == n >= 1 /\ BitAnd(n, n - 1) = 0

\* C1: on both strategies, after any sequence of insert, remove and clear
\* (growth included), every pair (k, v) inserted and not since removed,
\* overwritten or cleared is returned by search(k): result true, value v.
RoundTrip ==
    \A k \in Keys : ref[k] # NoValue => search(Self, k) = Found(ref[k])

\* an insert has just grown the table and another key is stored as well
RoundTripWitness ==
    /\ last.op = "insert" /\ last.grows > 0
    /\ \E k \in Stored : k # last.key
    /\ RoundTrip

\* C2: on both strategies size() is the number of distinct keys currently
\* present, also when duplicate inserts are interspersed.
SizeIsCount == size(Self) = Cardinality(Stored)

\* a duplicate has just been inserted into a table holding every key
SizeIsCountWitness ==
    /\ last.op = "insert" /\ last.had
    /\ Stored = Keys
    /\ size(Self) = NumKeys

\* C3: insert(k, v2) on a table that contains k makes search(k) return v2 and
\* leaves size() as it was, on both strategies, also when the insert grows
\* the table first.
InsertReplaces ==
    [][(last'.op = "insert" /\ last'.had /\ last'.ret = "ok")
          => /\ size(Self') = size(Self)
             /\ search(Self', last'.key) = Found(last'.value)]_vars

\* an insert of a present key with another value has just grown the table
InsertReplacesWitness ==
    /\ last.op = "insert" /\ last.had /\ last.grows > 0
    /\ search(Self, last.key) = Found(last.value)
    /\ \E k \in Stored : k # last.key /\ ref[k] # last.value

\* C4: in the open-addressing table no key is in two OCCUPIED slots; an
\* insert of a key that is present beyond a tombstone of its probe path
\* overwrites that slot and does not write into the tombstone.
OneSlotPerKey ==
    strategy_ = OPEN_ADDRESSING =>
        \A k \in Keys :
            Cardinality({i \in SlotsIn(OCCUPIED) : oa_entries_[i].key = k}) <= 1

\* an insert without growth has just updated a key whose slot lies beyond a
\* tombstone on its probe path
OneSlotPerKeyWitness ==
    /\ strategy_ = OPEN_ADDRESSING
    /\ last.op = "insert" /\ last.had /\ last.grows = 0
    /\ \E i \in SlotsIn(OCCUPIED) :
          /\ oa_entries_[i].key = last.key
          /\ oa_entries_[i].value = last.value
          /\ ProbePath(last.key, i) \cap SlotsIn(TOMBSTONE) # {}

\* C5: remove(k) of a key that is not present returns false and changes no
\* field of the object, on both strategies (so a second remove(k) in a row
\* returns false).
RemoveAbsentNoop ==
    [][(last'.op = "remove" /\ ~last'.had)
          => (last'.val = FALSE /\ Self' = Self)]_vars

\* a key whose tombstone is still in the table has just been removed again
RemoveAbsentNoopWitness ==
    /\ last.op = "remove" /\ ~last.had /\ last.val = FALSE
    /\ strategy_ = OPEN_ADDRESSING
    /\ size_ > 0
    /\ \E i \in SlotsIn(TOMBSTONE) : oa_entries_[i].key = last.key

\* C6: search(k) returns false whenever k was last removed or cleared, also
\* while other keys are present; and once every key is removed the table is
\* empty() with size() 0.
RemovedNotFound ==
    /\ \A k \in Keys :
          ref[k] = NoValue => (search(Self, k).ret = "ok" /\ ~search(Self, k).found)
    /\ Stored = {} => (empty(Self) /\ size(Self) = 0)

\* the last of the inserted keys has just been removed
RemovedNotFoundWitness ==
    /\ last.op = "remove" /\ last.val = TRUE
    /\ Stored = {}
    /\ empty(Self)

\* C7: right after an open-addressing insert size + tombstone_count is at
\* most load_threshold, which is 0.7 * capacity rounded down.
OALoadAfterInsert ==
    (last.op = "insert" /\ last.ret = "ok" /\ strategy_ = OPEN_ADDRESSING)
        => /\ size_ + tombstones_ <= load_threshold_
           /\ 10 * load_threshold_ <= 7 * capacity_
           /\ 7 * capacity_ < 10 * (load_threshold_ + 1)

\* an insert has just grown the table and filled it up to the threshold
OALoadAfterInsertWitness ==
    /\ last.op = "insert" /\ last.grows > 0
    /\ strategy_ = OPEN_ADDRESSING
    /\ size_ + tombstones_ = load_threshold_

\* C8 as stated: right after a chaining insert size / capacity <= 0.75.
SCLoadAfterInsert ==
    (last.op = "insert" /\ last.ret = "ok" /\ strategy_ = SEPARATE_CHAINING)
        => 4 * size_ <= 3 * capacity_

\* C8 as amended: right after a chaining insert (size - 1) / capacity <= 0.75;
\* the bound is tested before the entry is added, so size may pass it by one.
SCLoadBeforeNewEntry ==
    (last.op = "insert" /\ last.ret = "ok" /\ strategy_ = SEPARATE_CHAINING)
        => 4 * (size_ - 1) <= 3 * capacity_

\* a chaining insert has just rehashed and still left size above 0.75 capacity
SCLoadBeforeNewEntryWitness ==
    /\ last.op = "insert" /\ last.grows > 0
    /\ strategy_ = SEPARATE_CHAINING
    /\ 4 * size_ > 3 * capacity_

\* C9: an insert whose allocation of the larger slot or bucket array fails
\* has applied nothing: capacity, load_threshold, size, tombstone_count and
\* every entry are as before.
FailedGrowthAppliesNothing ==
    [][(last'.op = "insert" /\ last'.ret = "bad_alloc") => Self' = Self]_vars

\* C10: the growth step of an insert changes neither the keys present, nor
\* the value of any key, nor size(): what search and size() return right
\* after the growth is what they returned before the insert.
GrowthKeepsContents ==
    [][(last'.op = "insert" /\ last'.ret = "ok" /\ last'.grows > 0)
          => last'.mid = Observed(Self)]_vars

\* an insert has just grown a table that held two keys or more
GrowthKeepsContentsWitness ==
    /\ last.op = "insert" /\ last.grows > 0
    /\ last.mid.size >= 2
    /\ \E k \in Keys : last.mid.search[k].found /\ k # last.key

\* C11: an insert grows the table at most once, and a growth exactly doubles
\* capacity: the reinsertion of the old entries through the insert path
\* during the growth never grows the table again.
InsertGrowsOnce ==
    [][(last'.op = "insert" /\ last'.ret = "ok")
          => /\ last'.grows <= 1
             /\ capacity_' = IF last'.grows = 0 THEN capacity_ ELSE 2 * capacity_]_vars

\* an insert has just grown a table that held entries to reinsert, to a
\* capacity no constructor call of the model gives
InsertGrowsOnceWitness ==
    /\ last.op = "insert" /\ last.grows = 1
    /\ last.mid.size >= 1
    /\ size_ = last.mid.size + 1
    /\ capacity_ > MaxInitCap

\* C12: after clear() on an open-addressing table every slot is EMPTY,
\* size is 0, tombstone_count is 0 and capacity is what it was.
ClearResetsOpenAddressing ==
    [][(last'.op = "clear" /\ strategy_' = OPEN_ADDRESSING)
          => /\ \A i \in DOMAIN oa_entries_' : oa_entries_'[i].state = EMPTY
             /\ size_' = 0
             /\ tombstones_' = 0
             /\ capacity_' = capacity_]_vars

\* C13: across a chaining rehash every key that was present keeps its node:
\* after an insert that rehashed, each key stored before the insert is held
\* by the pool cell that held it before.
RehashKeepsNodes ==
    [][(last'.op = "insert" /\ last'.ret = "ok" /\ last'.grows > 0
            /\ strategy_ = SEPARATE_CHAINING)
          => \A k \in Stored : NodeOf(Self', k) = NodeOf(Self, k)]_vars

\* C14 as stated: set_strategy(s) on a table with size() > 0 fails with an
\* error and leaves strategy, capacity, size and every entry unchanged.
SetStrategyNonEmptyFails ==
    [][(last'.op = "set_strategy" /\ size_ > 0)
          => (last'.ret = "runtime_error" /\ Self' = Self)]_vars

\* C14 as amended: set_strategy(s) on a table with size() > 0 leaves every
\* field unchanged; it fails with the error when s is not the strategy of
\* the table and returns normally when it is.
SetStrategyNonEmptyKeeps ==
    [][(last'.op = "set_strategy" /\ size_ > 0)
          => /\ Self' = Self
             /\ last'.ret = IF last'.s = strategy_ THEN "ok" ELSE "runtime_error"]_vars

\* set_strategy to the other strategy has just failed on a table that holds
\* every key
SetStrategyNonEmptyKeepsWitness ==
    /\ last.op = "set_strategy" /\ last.ret = "runtime_error"
    /\ last.s # strategy_
    /\ Stored = Keys
    /\ RoundTrip

\* C15: set_strategy(s) on an empty table succeeds and leaves an empty table
\* of strategy s, on which the callers observe what they observe on
\* HashMap(s); and every insert and remove made on a table whose strategy
\* may have been switched returns what it returns on a table that was only
\* constructed (remove: whether the key was present), leaves the contents
\* such a table has (search and size() as after the same calls) and keeps
\* the load bounds of its strategy.
SwitchedBehavesAsNew ==
    [][/\ (last'.op = "set_strategy" /\ size_ = 0)
            => /\ last'.ret = "ok"
               /\ strategy_' = last'.s
               /\ Observed(Self') = Observed(HashMap(last'.s, 16))
       /\ (last'.op \in {"insert", "remove"})
            => /\ last'.ret = "ok"
               /\ last'.op = "remove" => last'.val = last'.had
               /\ Observed(Self') = ObservedOf(ref')
               /\ OALoadAfterInsert'
               /\ SCLoadBeforeNewEntry']_vars

\* an open-addressing table that was a chaining table before (its pool has
\* handed out nodes) holds every key after an insert that grew it
SwitchedBehavesAsNewWitness ==
    /\ strategy_ = OPEN_ADDRESSING
    /\ sc_pool_ # MemoryPool
    /\ last.op = "insert" /\ last.grows > 0
    /\ Stored = Keys
    /\ Observed(Self) = ObservedOf(ref)

\* C16: for an open-addressing table size + tombstone_count <= capacity in
\* every reachable state, set_strategy and clear included.
OAWithinCapacity ==
    strategy_ = OPEN_ADDRESSING => size_ + tombstones_ <= capacity_

\* C17: on both strategies capacity is a power of two, and at least 1, in
\* every reachable state: after construction, after every growth and after
\* set_strategy.
CapacityPowerOfTwo == PowerOfTwo(capacity_)

\* set_strategy has just made an open-addressing table of a chaining table
\* that had been rehashed (no other call leaves sc_node_count_ above size)
CapacityPowerOfTwoWitness ==
    /\ last.op = "set_strategy" /\ last.ret = "ok"
    /\ strategy_ = OPEN_ADDRESSING /\ last.s = OPEN_ADDRESSING
    /\ sc_node_count_ > 0
    /\ capacity_ > MaxCapacity
    /\ PowerOfTwo(capacity_)

\* C18: a table constructed with initial_capacity n has as capacity the
\* smallest power of two that is at least n, and 16 when n is 0.
ConstructedCapacity ==
    last.op = "HashMap"
        => IF last.n = 0 THEN capacity_ = 16
           ELSE /\ PowerOfTwo(capacity_)
                /\ capacity_ >= last.n
                /\ capacity_ = 1 \/ capacity_ \div 2 < last.n

\* a table has just been constructed with a request that is no power of two
ConstructedCapacityWitness ==
    /\ last.op = "HashMap"
    /\ last.n > 4 /\ ~PowerOfTwo(last.n)
    /\ capacity_ > last.n /\ capacity_ < 2 * last.n
    /\ DOMAIN (IF strategy_ = OPEN_ADDRESSING THEN oa_entries_ ELSE buckets_)
           = 0..(capacity_ - 1)

\* C19: for a chaining table, between public operations the number of
\* nodes linked in all the bucket chains is size.
ChainsHoldSize ==
    strategy_ = SEPARATE_CHAINING => LinkedNodes(Self) = size_

\* a chaining insert has just rehashed a table and every key is linked,
\* while sc_node_count_ has passed size
ChainsHoldSizeWitness ==
    /\ strategy_ = SEPARATE_CHAINING
    /\ last.op = "insert" /\ last.grows > 0
    /\ size_ = NumKeys
    /\ LinkedNodes(Self) = NumKeys
    /\ sc_node_count_ > size_

\* C20: for a chaining table memory_usage() is capacity * link_size +
\* N * node_size + the fixed object size, with N the number of nodes
\* currently linked in the buckets, after any sequence of operations.
MemoryUsageCountsLinkedNodes ==
    strategy_ = SEPARATE_CHAINING
        => memory_usage(Self) = (capacity_ * SizeofSCNodePtr)
                                + (LinkedNodes(Self) * SizeofSCNode)
                                + SizeofHashMap

\* the EMPTY slot at which a probe for key ends
TerminatingEmpty(key) ==
    {i \in SlotsIn(EMPTY) : ProbePath(key, i) \cap SlotsIn(EMPTY) = {}}

\* the TOMBSTONE slots a probe for key passes before it ends
TombstonesOnPath(key) ==
    UNION {ProbePath(key, i) \cap SlotsIn(TOMBSTONE) : i \in TerminatingEmpty(key)}

\* C21 as stated, for K = 1: in an open-addressing table, removing a present
\* key and then inserting a new key, the insert not growing the table, leaves
\* capacity unchanged and tombstone_count lower than after the removal.
TombstoneReuseLowers ==
    [][(strategy_ = OPEN_ADDRESSING
            /\ last.op = "remove" /\ last.val = TRUE
            /\ last'.op = "insert" /\ ~last'.had /\ last'.key # last.key
            /\ last'.grows = 0)
          => /\ capacity_' = capacity_
             /\ tombstones_' < tombstones_]_vars

\* C21 as amended: every open-addressing insert of a key that is not present
\* and does not grow the table leaves capacity unchanged and tombstone_count
\* lower by one if the probe path of the key holds a Tombstone before its
\* terminating Empty slot, unchanged otherwise; so K such inserts after K
\* removals leave tombstone_count lower by the number of keys whose path met
\* a Tombstone, and never higher.
TombstoneReuseOnPath ==
    [][(strategy_ = OPEN_ADDRESSING
            /\ last'.op = "insert" /\ last'.ret = "ok" /\ ~last'.had
            /\ last'.grows = 0)
          => /\ capacity_' = capacity_
             /\ tombstones_' = IF TombstonesOnPath(last'.key) # {}
                               THEN tombstones_ - 1 ELSE tombstones_]_vars

\* a new key has just been inserted without growth while the tombstone of a
\* removed key, which is not on its probe path, is still in the table
TombstoneReuseOnPathWitness ==
    /\ strategy_ = OPEN_ADDRESSING
    /\ last.op = "insert" /\ ~last.had /\ last.grows = 0
    /\ tombstones_ = 1
    /\ \E i \in SlotsIn(TOMBSTONE) : oa_entries_[i].key # last.key
    /\ TombstonesOnPath(last.key) = {}

\* the cells reached from cell c along next, at most fuel of them; the walk
\* ends at nullptr and at a cell that is in no chunk of the pool
RECURSIVE FreeWalk(_, _, _)
FreeWalk(p, c, fuel) ==
    IF c = nullptr \/ fuel = 0 THEN << >>
    ELSE IF c \notin DOMAIN p.cells THEN <<c>>
    ELSE <<c>> \o FreeWalk(p, p.cells[c].next, fuel - 1)

\* the free list of pool p, cut off after one cell more than the pool has
FreeList(p) == FreeWalk(p, p.free_list_, Cardinality(DOMAIN p.cells) + 1)

FreeCells(p) == {FreeList(p)[i] : i \in 1..Len(FreeList(p))}

\* the free list ends, without a cycle or a repeated cell, and every cell on
\* it is a cell of a chunk of the pool
FreeListSound(p) ==
    /\ Len(FreeList(p)) <= Cardinality(DOMAIN p.cells)
    /\ Cardinality(FreeCells(p)) = Len(FreeList(p))
    /\ FreeCells(p) \subseteq DOMAIN p.cells

\* the threads between the lock_guard and the return of allocate or deallocate
InCriticalSection ==
    {t \in Threads : threads[t].pc \in
        {"a_test", "a_read", "a_pop", "a_ret", "d_link", "d_head", "d_ret"}}

\* C22: when several threads call allocate and deallocate on one shared pool
\* in any interleaving, at most one of them is inside a call (past its
\* lock_guard) at a time, no cell is in the hands of two threads, no thread
\* dereferences nullptr, and whenever no call holds the mutex the free list
\* is sound and the free cells and the cells in hand partition the cells of
\* the pool: none is handed out twice, none is lost.
PoolCallsExclusive ==
    /\ Cardinality(InCriticalSection) <= 1
    /\ \A t \in InCriticalSection : mutex_ = t
    /\ \A t \in Threads : threads[t].pc # "undefined"
    /\ \A t, u \in Threads : t # u => InHand(t) \cap InHand(u) = {}
    /\ mutex_ = 0 =>
          /\ FreeListSound(sc_pool_)
          /\ FreeCells(sc_pool_) \cap UNION {InHand(t) : t \in Threads} = {}
          /\ FreeCells(sc_pool_) \cup UNION {InHand(t) : t \in Threads}
                = DOMAIN sc_pool_.cells

\* a thread is popping the free list of a pool that has grown while another
\* thread, which holds a cell and is returning one, waits for the mutex
PoolCallsExclusiveWitness ==
    \E t, u \in Threads :
        /\ threads[t].pc = "a_pop" /\ mutex_ = t
        /\ threads[u].pc = "d_lock"
        /\ threads[u].held # {}
        /\ sc_pool_.chunks_ = MaxChunks

\* C23: pool allocate fails only when the backing allocation of the new
\* chunk (the malloc of make_unique_array) fails, and after a failed allocate
\* the free list and the chunks the pool owns are as before the call: no
\* cell of a partially set-up or already released chunk is linked.
AllocateFailureLeavesPool ==
    [][(last'.op = "allocate" /\ last'.ret = "bad_alloc")
          => /\ ~last'.mem.chunk
             /\ sc_pool_' = sc_pool_
             /\ FreeCells(sc_pool_') \subseteq DOMAIN sc_pool_'.cells]_vars

\* the cells the callers hold
Held == UNION {threads[t].held : t \in Threads}

\* C30: for any sequence of pool allocate calls and deallocate calls of
\* handles currently held, the free list has no cycle and no repeated cell,
\* the cells on it and the cells held partition the cells of all chunks
\* (free cells + held cells = ChunkSize * number of chunks), and an allocate
\* obtains a new chunk, one, only when the free list is empty.
PoolCellsPartition ==
    /\ [](/\ FreeListSound(sc_pool_)
          /\ FreeCells(sc_pool_) \cap Held = {}
          /\ FreeCells(sc_pool_) \cup Held = DOMAIN sc_pool_.cells
          /\ DOMAIN sc_pool_.cells = 1..(ChunkSize * sc_pool_.chunks_)
          /\ Len(FreeList(sc_pool_)) + Cardinality(Held)
                = ChunkSize * sc_pool_.chunks_)
    /\ [][sc_pool_'.chunks_ # sc_pool_.chunks_
            => /\ last'.op = "allocate"
               /\ sc_pool_.free_list_ = nullptr
               /\ sc_pool_'.chunks_ = sc_pool_.chunks_ + 1]_vars

\* after the pool has grown, allocate has handed out again a cell of the
\* first chunk that had been given back, and cells of both chunks are free
PoolCellsPartitionWitness ==
    /\ sc_pool_.chunks_ = MaxChunks
    /\ last.op = "allocate" /\ last.ret = "ok"
    /\ last.val <= ChunkSize
    /\ \E c \in FreeCells(sc_pool_) : c <= ChunkSize
    /\ \E c \in FreeCells(sc_pool_) : c > ChunkSize

\* C24: for every sequence of insert, search, remove, clear and size calls,
\* an open-addressing table and a chaining table given the same sequence
\* return identical results at every step: what search returns for every
\* key (result and value), size() and empty() are the same on both after
\* every call, every remove returns the same on both, and every call
\* returns on both.
SameResults ==
    /\ Observed(Self) = Observed(twin)
    /\ last.ret = "ok" /\ last.tret = "ok"
    /\ last.op = "remove" => last.val = last.tval

\* a remove has just returned true on both tables, which hold another key;
\* the open-addressing table has grown and is the larger one
SameResultsWitness ==
    /\ last.op = "remove" /\ last.val = TRUE /\ last.tval = TRUE
    /\ size(twin) >= 1
    /\ capacity_ > capacity_round_up(MaxInitCap)
    /\ twin.capacity_ < capacity_
    /\ Observed(Self) = Observed(twin)

\* the slot an insert of the absent key writes: the first TOMBSTONE slot of
\* its probe path if there is one, the EMPTY slot that ends the path if not
InsertTarget(key) ==
    IF TombstonesOnPath(key) # {}
    THEN CHOOSE i \in TombstonesOnPath(key) :
             ProbePath(key, i) \cap SlotsIn(TOMBSTONE) = {}
    ELSE CHOOSE i \in TerminatingEmpty(key) : TRUE

\* C25: an open-addressing insert of a key that is not present stores it in
\* the first Tombstone slot met on its probe path when there is one before
\* the terminating Empty slot, and tombstone_count then decreases by 1, and
\* otherwise in that Empty slot, tombstone_count unchanged; no other slot
\* changes and size increases by exactly 1.  When the insert grows the table
\* first, the probe runs in the new array, which holds no Tombstone, with
\* the tombstone_count of 0 the growth step left: the key goes to the Empty
\* slot that ends its path there.
InsertFillsFirstTombstone ==
    [][(strategy_ = OPEN_ADDRESSING
            /\ last'.op = "insert" /\ last'.ret = "ok" /\ ~last'.had)
          => /\ size_' = size_ + 1
             /\ IF last'.grows = 0
                THEN /\ oa_entries_' =
                          [oa_entries_ EXCEPT ![InsertTarget(last'.key)] =
                              [key |-> last'.key, value |-> last'.value,
                               state |-> OCCUPIED, alive |-> TRUE]]
                     /\ tombstones_' =
                          IF oa_entries_[InsertTarget(last'.key)].state = TOMBSTONE
                          THEN tombstones_ - 1 ELSE tombstones_
                ELSE /\ tombstones_' = 0
                     /\ SlotsIn(TOMBSTONE)' = {}
                     /\ \E k \in Keys, i \in SlotsIn(OCCUPIED)' :
                           /\ k = last'.key
                           /\ oa_entries_'[i].key = k
                           /\ oa_entries_'[i].value = last'.value
                           /\ ProbePath(k, i)' \subseteq SlotsIn(OCCUPIED)']_vars

\* a key has just been written, without growth, into the first of two
\* tombstones of its probe path: the second one is still there
InsertFillsFirstTombstoneWitness ==
    /\ strategy_ = OPEN_ADDRESSING
    /\ last.op = "insert" /\ ~last.had /\ last.grows = 0
    /\ tombstones_ = 1
    /\ \E i \in SlotsIn(OCCUPIED), j \in SlotsIn(TOMBSTONE) :
          /\ oa_entries_[i].key = last.key
          /\ i \in ProbePath(last.key, j)

\* C26: in every reachable state of an open-addressing table, for each
\* Occupied slot holding key k no slot on the linear probe path from index
\* mix(k) & (capacity - 1) up to that slot is Empty; hence right after a
\* remove, which leaves a Tombstone, every key that is present is found.
ProbePathsUnbroken ==
    strategy_ = OPEN_ADDRESSING =>
        /\ \A i \in SlotsIn(OCCUPIED) :
              ProbePath(oa_entries_[i].key, i) \cap SlotsIn(EMPTY) = {}
        /\ last.op = "remove" =>
              \A k \in Stored : search(Self, k) = Found(ref[k])

\* a key has just been removed whose tombstone lies on the probe path of a
\* key that is present
ProbePathsUnbrokenWitness ==
    /\ strategy_ = OPEN_ADDRESSING
    /\ last.op = "remove" /\ last.val = TRUE
    /\ \E i \in SlotsIn(OCCUPIED), j \in SlotsIn(TOMBSTONE) :
          /\ oa_entries_[j].key = last.key
          /\ j \in ProbePath(oa_entries_[i].key, i)
          /\ search(Self, oa_entries_[i].key).found

\* C27: every open-addressing insert, search and remove terminates, for
\* present and absent keys alike: in every reachable state the slot array
\* holds at least one Empty slot (Occupied slots + Tombstone slots <
\* capacity), capacity 1 and 2 included, the call that led to the state has
\* returned, and every insert, search and remove that can be made in the
\* state returns.
ProbesTerminate ==
    strategy_ = OPEN_ADDRESSING =>
        /\ SlotsIn(EMPTY) # {}
        /\ Cardinality(SlotsIn(OCCUPIED)) + Cardinality(SlotsIn(TOMBSTONE)) < capacity_
        /\ last.ret # "hang"
        /\ \A k \in Keys :
              /\ search(Self, k).ret = "ok"
              /\ remove(Self, k).ret = "ok"
              /\ \A v \in Values : insert(Self, k, v, MemOK).ret = "ok"

\* a remove of an absent key has just returned false on a table of capacity
\* 2 whose one other slot is not Empty
ProbesTerminateWitness ==
    /\ strategy_ = OPEN_ADDRESSING
    /\ capacity_ = 2
    /\ Cardinality(SlotsIn(EMPTY)) = 1
    /\ last.op = "remove" /\ ~last.had /\ last.ret = "ok" /\ last.val = FALSE

\* C28: in every state between public operations of an open-addressing
\* table, tombstone_count is the number of slots whose state is Tombstone
\* and size is the number of Occupied slots, after any sequence of insert,
\* remove, clear, growth and set_strategy.
CountersMatchSlots ==
    strategy_ = OPEN_ADDRESSING =>
        /\ tombstones_ = Cardinality(SlotsIn(TOMBSTONE))
        /\ size_ = Cardinality(SlotsIn(OCCUPIED))

\* the slots of the open-addressing array whose value (the std::string) the
\* call destroys: oa_remove the slot of the key (line 208), oa_clear the
\* OCCUPIED slots (line 123), oa_grow every slot of the old array (lines
\* 154-156) and oa_free, called by a set_strategy that switches, every slot
\* (lines 134-136)
DestroyedBy(call) ==
    IF call.op = "remove"
    THEN {i \in SlotsIn(OCCUPIED) : oa_entries_[i].key = call.key}
    ELSE IF call.op = "clear" THEN SlotsIn(OCCUPIED)
    ELSE IF call.op = "insert" /\ call.grows > 0 THEN DOMAIN oa_entries_
    ELSE IF call.op = "set_strategy" /\ call.ret = "ok" /\ call.s # strategy_
    THEN DOMAIN oa_entries_
    ELSE {}

\* the slots of the array in which an insert that does not grow the table
\* constructs a std::string (new (&slot.value) std::string(value), line 176)
ConstructedBy(call) ==
    IF call.op = "insert" /\ call.grows = 0 /\ ~call.had
    THEN {InsertTarget(call.key)} ELSE {}

\* C29: in the open-addressing table the value object of a slot is never
\* destroyed twice and never constructed over a live value: every value a
\* call destroys (remove, clear, growth, set_strategy) is alive, and the
\* value an insert constructs is placed where no value is alive.
ValueLifetimes ==
    [][strategy_ = OPEN_ADDRESSING
          => /\ \A i \in DestroyedBy(last') : oa_entries_[i].alive
             /\ \A i \in ConstructedBy(last') : ~oa_entries_[i].alive]_vars

=============================================================================
